---- MODULE Spec2Model ----
(***************************************************************************)
(* The transaction analytics of the e-commerce dashboard                   *)
(* (src/dashboard_app.py, src/testing.py): the sidebar filter, the grouped *)
(* aggregations, the customer roll-up and the fraud heuristics, as they    *)
(* act on one in-memory table (a pandas DataFrame).                        *)
(*                                                                         *)
(* A table is [columns |-> sequence of column names, rows |-> sequence of  *)
(* rows]; a row is a function from column names to values.  Amounts are    *)
(* integers.  transaction_date is a timestamp counted in hours since       *)
(* 1 January 00:00 of a non-leap year, so that .dt.date, .dt.hour and      *)
(* .dt.to_period are computed from it.  Strings are ordered as Python      *)
(* orders them by their place in StringOrder.  Arithmetic is exact: the    *)
(* float64 rounding of pandas is not modelled.                             *)
(*                                                                         *)
(* The cache of dashboard_app.py (save_dataframe, load_cached_data,        *)
(* load_data) is modelled on the CSV files of one directory, and the main  *)
(* flow of the script on the session state of each browser session.        *)
(***************************************************************************)
EXTENDS Integers, Sequences, FiniteSets, TLC

(***************************************************************************)
(* Bounds of the model.                                                    *)
(***************************************************************************)
\* rows of a store drawn from the varied rows (VariedRows)
MaxRows == 3
\* rows of a store drawn from the catalogue rows (CatalogueRows)
MaxLong == 12
\* rows of a table that is written to the cache
MaxCached == 2
\* executions of load_data that a session counts for one file content
MaxLoads == 2

(***************************************************************************)
(* Generic helpers.                                                        *)
(***************************************************************************)
Range(s) == {s[i] : i \in DOMAIN s}

Min(a, b) == IF a <= b THEN a ELSE b

Reverse(s) == [i \in 1..Len(s) |-> s[Len(s) + 1 - i]]

Head_n(s, n) == SubSeq(s, 1, Min(n, Len(s)))

RECURSIVE SumSeq(_)
SumSeq(s) == IF s = <<>> THEN 0 ELSE Head(s) + SumSeq(Tail(s))

\* the values of column col, in row order (df[col])
Column(rows, col) == [i \in 1..Len(rows) |-> rows[i][col]]

\* drop the values of a sequence that occurred before (unique(), in order
\* of first appearance)
RECURSIVE Unique(_)
Unique(s) ==
    IF s = <<>> THEN <<>>
    ELSE LET init == Unique(SubSeq(s, 1, Len(s) - 1))
             last == s[Len(s)]
         IN  IF last \in Range(init) THEN init ELSE Append(init, last)

(***************************************************************************)
(* The order of Python on the values of the model: integers by value,      *)
(* strings by code point.                                                  *)
(***************************************************************************)
StringOrder ==
    << "10.0.0.1", "10.0.0.2", "10.0.0.3",
       "Bank Transfer", "Blender", "CUST-00001", "CUST-00002", "CUST-00003",
       "CUST-00004", "CUST-00005", "CUST-00006", "CUST-00007", "CUST-00008",
       "CUST-00009", "CUST-00010", "CUST-00011", "CUST-00012", "CUST-00013",
       "CUST-00014",
       "Clothing", "Coffee Maker", "Credit Card", "Debit Card",
       "Electronics", "Express", "Headphones", "Home", "International",
       "Jacket", "Jeans", "Laptop", "Microwave", "Next Day", "PayPal",
       "Smartphone", "Sneakers", "Standard", "T-shirt", "Tablet",
       "Vacuum Cleaner" >>

StrRank(v) == CHOOSE i \in DOMAIN StringOrder : StringOrder[i] = v

\* the columns that hold strings, and the column that holds Period values
StringColumns ==
    { "customer_id", "category", "product_name", "payment_method",
      "shipping_method", "ip_address" }

\* the place of value v of column col in the order pandas sorts that
\* column by
Rank(col, v) ==
    IF col \in StringColumns THEN StrRank(v)
    ELSE IF col = "period" THEN v.ordinal
    ELSE v

\* a stable ascending insertion sort of rows by column col (numpy's sorts
\* are stable on arrays this short)
RECURSIVE InsertAsc(_, _, _)
InsertAsc(sorted, r, col) ==
    IF sorted = <<>> THEN <<r>>
    ELSE IF Rank(col, sorted[Len(sorted)][col]) <= Rank(col, r[col])
         THEN Append(sorted, r)
         ELSE Append(InsertAsc(SubSeq(sorted, 1, Len(sorted) - 1), r, col),
                     sorted[Len(sorted)])

RECURSIVE ArgSortAsc(_, _)
ArgSortAsc(rows, col) ==
    IF rows = <<>> THEN <<>>
    ELSE InsertAsc(ArgSortAsc(SubSeq(rows, 1, Len(rows) - 1), col),
                   rows[Len(rows)], col)

\* sort_values(col, ascending=False) and Series.sort_values(ascending=
\* False): pandas reverses the rows, sorts them ascending and reverses
\* the result, so equal values keep their order
SortValuesDesc(rows, col) == Reverse(ArgSortAsc(Reverse(rows), col))

\* the distinct values of a set of keys of column col, ascending
RECURSIVE SortedKeys(_, _)
SortedKeys(col, S) ==
    IF S = {} THEN <<>>
    ELSE LET m == CHOOSE x \in S :
                      \A y \in S : Rank(col, x) <= Rank(col, y)
         IN  <<m>> \o SortedKeys(col, S \ {m})

(***************************************************************************)
(* Timestamps: .dt.date, .dt.hour, .dt.to_period(freq).                    *)
(***************************************************************************)
\* the day of the year (0 is 1 January) of a timestamp
DateOf(ts) == ts \div 24

HourOf(ts) == ts % 24

\* the day of the year on which each month of a non-leap year ends
MonthEnds == <<31, 59, 90, 120, 151, 181, 212, 243, 273, 304, 334, 365>>

MonthOf(day) == CHOOSE m \in 1..12 :
                    /\ day < MonthEnds[m]
                    /\ \A k \in 1..(m - 1) : day >= MonthEnds[k]

\* a pandas Period: its frequency and the number of its bucket
to_period(ts, freq) ==
    [freq |-> freq,
     ordinal |-> IF freq = "M" THEN MonthOf(DateOf(ts)) ELSE DateOf(ts)]

(***************************************************************************)
(* groupby(key).agg({...}).reset_index(): one row per distinct key, in     *)
(* ascending key order, with the sum of each column of sums and the        *)
(* number of rows for each column of counts.  keys[i] is the key of row i. *)
(***************************************************************************)
GroupRows(rows, keys, k) == SelectSeq([i \in 1..Len(rows) |->
                                          [key |-> keys[i], row |-> rows[i]]],
                                      LAMBDA e : e.key = k)

GroupByAgg(rows, keys, keyname, sums, counts) ==
    LET ks == SortedKeys(keyname, Range(keys))
    IN  [g \in 1..Len(ks) |->
            LET members == GroupRows(rows, keys, ks[g])
            IN  [c \in {keyname} \cup sums \cup counts |->
                    IF c = keyname THEN ks[g]
                    ELSE IF c \in sums
                         THEN SumSeq([i \in 1..Len(members) |->
                                         members[i].row[c]])
                         ELSE Len(members)]]

(***************************************************************************)
(* Series.quantile(q) with q = p/100, linear interpolation: NaN on an      *)
(* empty column, else the value at place (n-1)*q of the sorted column.     *)
(* The result is kept as 100 times the quantile, which is an integer.      *)
(***************************************************************************)
NaN == [isnan |-> TRUE, times100 |-> 0]

RECURSIVE SortInts(_)
SortInts(s) ==
    IF s = <<>> THEN <<>>
    ELSE LET m == CHOOSE i \in DOMAIN s : \A j \in DOMAIN s : s[i] <= s[j]
         IN  <<s[m]>> \o SortInts([i \in 1..(Len(s) - 1) |->
                                      IF i < m THEN s[i] ELSE s[i + 1]])

\* quantile with 0 for an empty column
quantileZeroWhenEmpty(values, p) ==
    IF values = <<>> THEN [isnan |-> FALSE, times100 |-> 0]
    ELSE LET a    == SortInts(values)
             n    == Len(a)
             lo   == ((n - 1) * p) \div 100
             frac == ((n - 1) * p) % 100
             hi   == Min(lo + 1, n - 1)
         IN  [isnan |-> FALSE,
              times100 |-> 100 * a[lo + 1] + frac * (a[hi + 1] - a[lo + 1])]

quantile(values, p) ==
    IF values = <<>> THEN NaN
    ELSE LET a    == SortInts(values)
             n    == Len(a)
             lo   == ((n - 1) * p) \div 100
             frac == ((n - 1) * p) % 100
             hi   == Min(lo + 1, n - 1)
         IN  [isnan |-> FALSE,
              times100 |-> 100 * a[lo + 1] + frac * (a[hi + 1] - a[lo + 1])]

\* x > q for a number x and a quantile q: False when q is NaN
GreaterThan(x, q) == ~q.isnan /\ 100 * x > q.times100

\* Series.between(left, right), both ends included
between(x, left, right) == left <= x /\ x <= right

\* mean that divides the sum by the count of an empty column too
meanDividesByZero(values) ==
    [isnan |-> FALSE, num |-> SumSeq(values), den |-> Len(values)]

\* Series.mean(): NaN on an empty column, else the fraction num/den
mean(values) ==
    IF values = <<>> THEN [isnan |-> TRUE, num |-> 0, den |-> 1]
    ELSE [isnan |-> FALSE, num |-> SumSeq(values), den |-> Len(values)]

(***************************************************************************)
(* DataFrame.nlargest(n, col), keep='first'.  With n >= len the series is  *)
(* sorted descending and cut; otherwise the rows that reach the n-th       *)
(* largest value are taken in row order, merge-sorted on the negated       *)
(* value and cut to n.                                                     *)
(***************************************************************************)
RECURSIVE InsertDesc(_, _, _)
InsertDesc(sorted, r, col) ==
    IF sorted = <<>> THEN <<r>>
    ELSE IF sorted[Len(sorted)][col] >= r[col]
         THEN Append(sorted, r)
         ELSE Append(InsertDesc(SubSeq(sorted, 1, Len(sorted) - 1), r, col),
                     sorted[Len(sorted)])

RECURSIVE MergeSortNegated(_, _)
MergeSortNegated(rows, col) ==
    IF rows = <<>> THEN <<>>
    ELSE InsertDesc(MergeSortNegated(SubSeq(rows, 1, Len(rows) - 1), col),
                    rows[Len(rows)], col)

\* nlargest that takes the first n rows as they are
nlargestUnsorted(n, col, rows) == Head_n(rows, n)

\* nlargest that prefers the later of two rows with one value
nlargestKeepLast(n, col, rows) ==
    Head_n(MergeSortNegated(Reverse(rows), col), n)

nlargest(n, col, rows) ==
    IF n <= 0 THEN <<>>
    ELSE IF n >= Len(rows) THEN Head_n(SortValuesDesc(rows, col), n)
    ELSE LET kth_val == Reverse(SortInts(Column(rows, col)))[n]
             ns      == SelectSeq(rows, LAMBDA r : r[col] >= kth_val)
         IN  Head_n(MergeSortNegated(ns, col), n)

\* the N of every top-N table of the dashboard
TopN == 10

(***************************************************************************)
(* The sidebar filter of create_dashboard.  A filter specification holds   *)
(* the values of the widgets.                                              *)
(***************************************************************************)
\* Mask with the shipping choice assigned to the mask instead of ANDed
MaskShippingOverwrites(r, f) ==
    IF f.selected_shipping # "All"
    THEN r.shipping_method = f.selected_shipping
    ELSE /\ DateOf(r.transaction_date) >= f.date_range[1]
         /\ DateOf(r.transaction_date) <= f.date_range[2]
         /\ between(r.total_price, f.price_range[1], f.price_range[2])
         /\ (f.selected_category # "All"
                 => r.category = f.selected_category)
         /\ (f.selected_product # "All"
                 => r.product_name = f.selected_product)
         /\ (f.selected_payment # "All"
                 => r.payment_method = f.selected_payment)

Mask(r, f) ==
    /\ DateOf(r.transaction_date) >= f.date_range[1]
    /\ DateOf(r.transaction_date) <= f.date_range[2]
    /\ between(r.total_price, f.price_range[1], f.price_range[2])
    /\ (f.selected_category # "All" => r.category = f.selected_category)
    /\ (f.selected_product # "All" => r.product_name = f.selected_product)
    /\ (f.selected_payment # "All" => r.payment_method = f.selected_payment)
    /\ (f.selected_shipping # "All"
            => r.shipping_method = f.selected_shipping)

ApplyFilters(rows, f) == SelectSeq(rows, LAMBDA r : Mask(r, f))

\* the filter of create_streamlit_app (testing.py): dates and category
MaskBasic(r, f) ==
    /\ DateOf(r.transaction_date) >= f.date_range[1]
    /\ DateOf(r.transaction_date) <= f.date_range[2]
    /\ (f.selected_category # "All" => r.category = f.selected_category)

ApplyFiltersBasic(rows, f) == SelectSeq(rows, LAMBDA r : MaskBasic(r, f))

(***************************************************************************)
(* The aggregations of create_dashboard.                                   *)
(***************************************************************************)
\* DailyMetrics grouped by the timestamp instead of its date
DailyMetricsByTimestamp(rows) ==
    GroupByAgg(rows, Column(rows, "transaction_date"),
               "transaction_date", {"profit", "total_price", "cost"}, {})

DailyMetrics(rows) ==
    GroupByAgg(rows,
               [i \in 1..Len(rows) |-> DateOf(rows[i].transaction_date)],
               "transaction_date", {"profit", "total_price", "cost"}, {})

ProductAnalysis(rows) ==
    GroupByAgg(rows, Column(rows, "product_name"), "product_name",
               {"quantity", "profit", "total_price"}, {})

\* the local category_data of plot_category_distribution
CategoryData(rows) ==
    GroupByAgg(rows, Column(rows, "category"), "category",
               {"total_price", "profit"}, {"order_id"})

\* create_customer_insights with the mean of total_price over the rows
create_customer_insights_per_order(rows) ==
    LET customer_data ==
            GroupByAgg(rows, Column(rows, "customer_id"), "customer_id",
                       {"total_price", "profit"}, {"order_id"})
    IN  [total_customers  |-> Len(customer_data),
         avg_order_value  |-> mean(Column(rows, "total_price")),
         repeat_customers |->
             Len(SelectSeq(customer_data, LAMBDA c : c.order_id > 1)),
         top_spenders     |-> nlargest(10, "total_price", customer_data)]

create_customer_insights(rows) ==
    LET customer_data ==
            GroupByAgg(rows, Column(rows, "customer_id"), "customer_id",
                       {"total_price", "profit"}, {"order_id"})
    IN  [total_customers  |-> Len(customer_data),
         avg_order_value  |-> mean(Column(customer_data, "total_price")),
         repeat_customers |->
             Len(SelectSeq(customer_data, LAMBDA c : c.order_id > 1)),
         top_spenders     |-> nlargest(TopN, "total_price", customer_data)]

(***************************************************************************)
(* The key metrics of create_dashboard.  A quotient of two numpy numbers   *)
(* is kept as the fraction num/den; with a divisor of zero numpy raises    *)
(* nothing and gives nan for 0/0 and an infinity otherwise.  A delta is    *)
(* 100 times the quotient, shown as a percentage.                          *)
(***************************************************************************)
NoQuotient == [kind |-> "none", num |-> 0, den |-> 1]

TrueDivide(a, b) ==
    IF b = 0
    THEN [kind |-> IF a = 0 THEN "nan" ELSE IF a > 0 THEN "inf" ELSE "-inf",
          num |-> a, den |-> 1]
    ELSE [kind |-> "num", num |-> a, den |-> b]

\* the four st.metric of create_dashboard; len(filtered_df) / len(df)
\* divides Python integers, and the store has a row
KeyMetrics(store, view) ==
    [revenue       |-> SumSeq(Column(view, "total_price")),
     revenue_share |-> TrueDivide(SumSeq(Column(view, "total_price")),
                                  SumSeq(Column(store, "total_price"))),
     profit        |-> SumSeq(Column(view, "profit")),
     margin        |-> TrueDivide(SumSeq(Column(view, "profit")),
                                  SumSeq(Column(view, "total_price"))),
     orders        |-> Len(view),
     order_share   |-> [kind |-> "num", num |-> Len(view),
                        den |-> Len(store)],
     avg_order     |-> mean(Column(view, "total_price"))]

\* the three st.metric of create_streamlit_app: no delta, no average
KeyMetricsBasic(view) ==
    [revenue       |-> SumSeq(Column(view, "total_price")),
     revenue_share |-> NoQuotient,
     profit        |-> SumSeq(Column(view, "profit")),
     margin        |-> NoQuotient,
     orders        |-> Len(view),
     order_share   |-> NoQuotient,
     avg_order     |-> mean(<<>>)]

NoMetrics == KeyMetricsBasic(<<>>)

(***************************************************************************)
(* create_time_comparison(df, metric, freq): sets column 'period' of the   *)
(* table it is given, and returns the sums of metric by period.  The       *)
(* string of a period is kept as the period: str is one-to-one on the      *)
(* periods of one frequency.                                               *)
(***************************************************************************)
WithPeriod(d, freq) ==
    [columns |-> IF "period" \in Range(d.columns) THEN d.columns
                 ELSE Append(d.columns, "period"),
     rows    |-> [i \in 1..Len(d.rows) |->
                     [c \in DOMAIN d.rows[i] \cup {"period"} |->
                         IF c = "period"
                         THEN to_period(d.rows[i].transaction_date, freq)
                         ELSE d.rows[i][c]]]]

TimeComparison(d, metric) ==
    GroupByAgg(d.rows, Column(d.rows, "period"), "period", {metric}, {})

(***************************************************************************)
(* The fraud tab of create_dashboard.                                      *)
(***************************************************************************)
\* the percentile of the quantity and of the IP heuristics
FixedPercentile == 95

\* SuspiciousOrders that also flags a total_price equal to the percentile
SuspiciousOrdersInclusive(rows, threshold) ==
    LET price_q == quantile(Column(rows, "total_price"), threshold)
        qty_q   == quantile(Column(rows, "quantity"), 95)
    IN  SelectSeq(rows, LAMBDA r :
            \/ (~price_q.isnan /\ 100 * r.total_price >= price_q.times100)
            \/ between(HourOf(r.transaction_date), 1, 4)
            \/ GreaterThan(r.quantity, qty_q))

\* SuspiciousOrders that flags the total_price below the percentile
SuspiciousOrdersBelow(rows, threshold) ==
    LET price_q == quantile(Column(rows, "total_price"), threshold)
        qty_q   == quantile(Column(rows, "quantity"), 95)
    IN  SelectSeq(rows, LAMBDA r :
            \/ (~price_q.isnan /\ 100 * r.total_price < price_q.times100)
            \/ between(HourOf(r.transaction_date), 1, 4)
            \/ GreaterThan(r.quantity, qty_q))

SuspiciousOrders(rows, threshold) ==
    LET price_q == quantile(Column(rows, "total_price"), threshold)
        qty_q   == quantile(Column(rows, "quantity"), FixedPercentile)
    IN  SelectSeq(rows, LAMBDA r :
            \/ GreaterThan(r.total_price, price_q)
            \/ between(HourOf(r.transaction_date), 1, 4)
            \/ GreaterThan(r.quantity, qty_q))

IpCounts(rows) ==
    GroupByAgg(rows, Column(rows, "ip_address"), "ip_address", {},
               {"order_id"})

SuspiciousIps(rows) ==
    LET ip_counts == IpCounts(rows)
        q == quantile(Column(ip_counts, "order_id"), FixedPercentile)
    IN  SelectSeq(ip_counts, LAMBDA c : GreaterThan(c.order_id, q))

\* SuspiciousIpOrders that leaves out the first order of each IP
SuspiciousIpOrdersExcess(rows) ==
    LET ips == Range(Column(SuspiciousIps(rows), "ip_address"))
    IN  SelectSeq(rows, LAMBDA r :
            /\ r.ip_address \in ips
            /\ \E e \in Range(rows) : /\ e.ip_address = r.ip_address
                                      /\ e.order_id < r.order_id)

SuspiciousIpOrders(rows) ==
    LET ips == Range(Column(SuspiciousIps(rows), "ip_address"))
    IN  SelectSeq(rows, LAMBDA r : r.ip_address \in ips)

\* SuspiciousData without drop_duplicates()
SuspiciousDataConcat(a, b) == a \o b

\* pd.concat([a, b]).drop_duplicates(): rows equal in every column are
\* kept once, at their first place
SuspiciousData(a, b) == Unique(a \o b)

DetailColumns ==
    { "order_id", "transaction_date", "total_price", "quantity",
      "ip_address", "payment_method" }

\* the table shown under "Suspicious Order Details"
SuspiciousDetails(data) ==
    SortValuesDesc([i \in 1..Len(data) |->
                       [c \in DetailColumns |-> data[i][c]]],
                   "total_price")

(***************************************************************************)
(* The cache: DataFrame.to_csv(index=False), pd.read_csv and               *)
(* pd.to_datetime.  A CSV file is its header and one line per row; a line  *)
(* gives the text of each cell.  A number is written in decimal digits, a  *)
(* timestamp as month, day and hour ('%Y-%m-%d %H:%M:%S'), a Period as its *)
(* string and a string as it is.  read_csv turns the text of a number into *)
(* the number and leaves every other text as text.  Every file operation   *)
(* is one step.                                                            *)
(***************************************************************************)
NumberColumns == {"order_id", "quantity", "total_price", "cost", "profit"}

RECURSIVE Digits(_)
Digits(n) == IF n < 10 THEN <<n>> ELSE Append(Digits(n \div 10), n % 10)

RECURSIVE DigitsValue(_)
DigitsValue(d) ==
    IF d = <<>> THEN 0
    ELSE 10 * DigitsValue(SubSeq(d, 1, Len(d) - 1)) + d[Len(d)]

FormatNumber(n) ==
    [negative |-> n < 0, digits |-> Digits(IF n < 0 THEN 0 - n ELSE n)]

ParseNumber(t) ==
    IF t.negative THEN 0 - DigitsValue(t.digits) ELSE DigitsValue(t.digits)

\* the day of the year on which month m starts
MonthStart(m) == IF m = 1 THEN 0 ELSE MonthEnds[m - 1]

FormatTimestamp(ts) ==
    LET m == MonthOf(DateOf(ts))
    IN  [month |-> m, day |-> DateOf(ts) - MonthStart(m) + 1,
         hour |-> HourOf(ts)]

to_datetime(t) == (MonthStart(t.month) + t.day - 1) * 24 + t.hour

\* str(Period): '2023-01' or '2023-01-01'
PeriodText(v) == [text |-> "period", freq |-> v.freq, ordinal |-> v.ordinal]

FormatCell(c, v) ==
    IF c \in NumberColumns THEN FormatNumber(v)
    ELSE IF c = "transaction_date" THEN FormatTimestamp(v)
    ELSE IF c = "period" THEN PeriodText(v)
    ELSE v

ParseCell(c, t) == IF c \in NumberColumns THEN ParseNumber(t) ELSE t

NoFile == [exists |-> FALSE, header |-> <<>>, lines |-> <<>>]

to_csv(d) ==
    [exists |-> TRUE, header |-> d.columns,
     lines |-> [i \in 1..Len(d.rows) |->
                   [c \in Range(d.columns) |-> FormatCell(c, d.rows[i][c])]]]

read_csv(file) ==
    [columns |-> file.header,
     rows |-> [i \in 1..Len(file.lines) |->
                  [c \in Range(file.header) |->
                      ParseCell(c, file.lines[i][c])]]]

\* df['transaction_date'] = pd.to_datetime(df['transaction_date'])
ParseDates(d) ==
    [columns |-> d.columns,
     rows |-> [i \in 1..Len(d.rows) |->
                  [d.rows[i] EXCEPT
                      !.transaction_date = to_datetime(@)]]]

\* None, and a table returned by a call
None == [isnone |-> TRUE, columns |-> <<>>, rows |-> <<>>]

Some(d) == [isnone |-> FALSE, columns |-> d.columns, rows |-> d.rows]

DefaultCache == "cached_data.csv"

\* the files after save_dataframe(df, filename)
save_dataframe(fs, d, filename) == [fs EXCEPT ![filename] = to_csv(d)]

load_cached_data(fs, filename) ==
    IF fs[filename].exists THEN Some(ParseDates(read_csv(fs[filename])))
    ELSE None

\* load_data(file): the table it returns and the files it leaves
load_data(fs, file) ==
    LET d == ParseDates(read_csv(file))
    IN  [df |-> Some(d), files |-> save_dataframe(fs, d, DefaultCache)]

\* the names of the files: the default cache and the paths of the tests
Filenames == {DefaultCache, "test_data.csv"}

(***************************************************************************)
(* The stores the stages are run on.  A store keeps the columns the stages *)
(* read; order_id is the place of the row (range(1, n + 1), as in the      *)
(* sample table of the tests).                                             *)
(***************************************************************************)
DataColumns ==
    << "order_id", "transaction_date", "customer_id", "category",
       "product_name", "quantity", "total_price", "cost", "profit",
       "payment_method", "shipping_method", "ip_address" >>

MakeRow(id, ts, cust, cat, prod, qty, price, cost, pay, ship, ip) ==
    [order_id |-> id, transaction_date |-> ts, customer_id |-> cust,
     category |-> cat, product_name |-> prod, quantity |-> qty,
     total_price |-> price, cost |-> cost, profit |-> price - cost,
     payment_method |-> pay, shipping_method |-> ship, ip_address |-> ip]

\* rows that differ in every column a filter, a bucket or a signal reads:
\* 1 January 12:00 and 01:00, 2 January 04:00, 1 February 05:00
VariedRow(id, v) ==
    CASE v = 1 -> MakeRow(id, 12, "CUST-00001", "Electronics", "Laptop",
                          1, 1000, 700, "Credit Card", "Standard",
                          "10.0.0.1")
      [] v = 2 -> MakeRow(id, 1, "CUST-00001", "Clothing", "T-shirt",
                          2, 40, 6, "PayPal", "Express", "10.0.0.1")
      [] v = 3 -> MakeRow(id, 28, "CUST-00002", "Electronics", "Smartphone",
                          1, 1000, 600, "PayPal", "Standard", "10.0.0.2")
      [] v = 4 -> MakeRow(id, 749, "CUST-00002", "Clothing", "T-shirt",
                          5, 0, 0, "Credit Card", "Express", "10.0.0.1")

Variants == {1, 2, 3, 4}

Table(rows) == [columns |-> DataColumns, rows |-> rows]

VariedStores ==
    UNION { { Table([i \in 1..n |-> VariedRow(i, vs[i])]) :
                vs \in [1..n -> Variants] } : n \in 0..MaxRows }

\* the products of data_generation.PRODUCTS with their categories
Catalogue ==
    << <<"Electronics", "Laptop">>, <<"Electronics", "Smartphone">>,
       <<"Electronics", "Headphones">>, <<"Electronics", "Tablet">>,
       <<"Clothing", "T-shirt">>, <<"Clothing", "Jeans">>,
       <<"Clothing", "Sneakers">>, <<"Clothing", "Jacket">>,
       <<"Home", "Coffee Maker">>, <<"Home", "Blender">>,
       <<"Home", "Vacuum Cleaner">>, <<"Home", "Microwave">> >>

\* row i of a long store: product i of the catalogue, on 1 January at
\* hour i + 2, priced 1000 when dear and 50 otherwise, 9 pieces in every
\* seventh row
CatalogueRow(i, dear) ==
    LET item == Catalogue[((i - 1) % Len(Catalogue)) + 1]
    IN  MakeRow(i, i + 2,
                IF i % 2 = 1 THEN "CUST-00001" ELSE "CUST-00002",
                item[1], item[2], IF i % 7 = 0 THEN 9 ELSE 1 + (i % 3),
                IF dear THEN 1000 ELSE 50, 5 * i,
                IF i % 2 = 1 THEN "Credit Card" ELSE "PayPal",
                IF i % 3 = 0 THEN "Express" ELSE "Standard",
                IF i % 2 = 1 THEN "10.0.0.1"
                ELSE IF i % 4 = 2 THEN "10.0.0.2" ELSE "10.0.0.3")

\* the tables the cache functions are tried on
CachedStores ==
    UNION { { Table([i \in 1..n |-> VariedRow(i, vs[i])]) :
                vs \in [1..n -> Variants] } : n \in 0..MaxCached }

LongStores ==
    UNION { { Table([i \in 1..n |-> CatalogueRow(i, i \in dear)]) :
                dear \in { D \in SUBSET (1..n) : Cardinality(D) <= 2 } } :
            n \in (MaxLong - 1)..MaxLong }

\* the customer_id values of the generator: 'CUST-' and five digits
CustomerIds ==
    << "CUST-00001", "CUST-00002", "CUST-00003", "CUST-00004", "CUST-00005",
       "CUST-00006", "CUST-00007", "CUST-00008", "CUST-00009", "CUST-00010",
       "CUST-00011", "CUST-00012", "CUST-00013", "CUST-00014" >>

\* row i of a store of n customers: the catalogue row of customer
\* n + 1 - i, so that the rows come in descending customer_id order; the
\* last row is a second order of the customer of the first row
CustomerRow(i, n, dear) ==
    [CatalogueRow(i, dear) EXCEPT
        !.customer_id = CustomerIds[IF i > n THEN n ELSE n + 1 - i]]

CustomerStores ==
    UNION { { Table([i \in 1..(n + 1) |-> CustomerRow(i, n, i \in dear)]) :
                dear \in { D \in SUBSET (1..n) : Cardinality(D) <= 1 } } :
            n \in (MaxLong - 1)..MaxLong }

(***************************************************************************)
(* The values the widgets of the sidebar can hold for a store: the date    *)
(* input and the price slider give an ordered pair within the range of the *)
(* column, a select box gives 'All' or a value of the column, the          *)
(* percentile slider gives 90..99.  Dates and prices are tried at the      *)
(* values of the column, the percentile at Thresholds, and at most two     *)
(* widgets are moved from their defaults in one run.                       *)
(***************************************************************************)
Thresholds == {90, 95, 99}

Dates(rows) == {DateOf(rows[i].transaction_date) : i \in DOMAIN rows}

SetMin(S) == CHOOSE x \in S : \A y \in S : x <= y

SetMax(S) == CHOOSE x \in S : \A y \in S : x >= y

OrderedPairs(S) == {p \in S \X S : p[1] <= p[2]}

Options(rows, col) == {"All"} \cup Range(Column(rows, col))

DefaultFilters(rows) ==
    [date_range |-> <<SetMin(Dates(rows)), SetMax(Dates(rows))>>,
     price_range |-> <<SetMin(Range(Column(rows, "total_price"))),
                       SetMax(Range(Column(rows, "total_price")))>>,
     selected_category |-> "All", selected_product |-> "All",
     selected_payment |-> "All", selected_shipping |-> "All",
     suspicious_threshold |-> 95]

AllWidgetValues(rows) ==
    [date_range : OrderedPairs(Dates(rows)),
     price_range : OrderedPairs(Range(Column(rows, "total_price"))),
     selected_category : Options(rows, "category"),
     selected_product : Options(rows, "product_name"),
     selected_payment : Options(rows, "payment_method"),
     selected_shipping : Options(rows, "shipping_method"),
     suspicious_threshold : Thresholds]

WidgetChoices(rows) ==
    LET d == DefaultFilters(rows)
    IN  {f \in AllWidgetValues(rows) :
            Cardinality({w \in DOMAIN f : f[w] # d[w]}) <= 2}

\* the widgets of create_streamlit_app (testing.py): the date input and
\* the category select box; the others are held at their defaults, which
\* constrain nothing
BasicWidgetChoices(rows) ==
    LET d == DefaultFilters(rows)
    IN  {f \in AllWidgetValues(rows) :
            \A w \in DOMAIN f :
                w \notin {"date_range", "selected_category"} => f[w] = d[w]}

\* the filter specifications a caller can hand to the filter of lines
\* 179-193: any two dates and any two prices of the store as bounds, in
\* either order, and a category
FilterSpecifications(rows) ==
    LET d == DefaultFilters(rows)
    IN  {f \in [date_range : Dates(rows) \X Dates(rows),
                price_range : Range(Column(rows, "total_price"))
                                  \X Range(Column(rows, "total_price")),
                selected_category : Options(rows, "category"),
                selected_product : {"All"},
                selected_payment : {"All"},
                selected_shipping : {"All"},
                suspicious_threshold : {d.suspicious_threshold}] : TRUE}

(***************************************************************************)
(* State: the table the stages are given and the tables they derive.       *)
(***************************************************************************)
VARIABLES
    df,                   \* the store: st.session_state.data, sample_df
    last,                 \* the function that ran last
    filters,              \* the widget values of the last run
    filtered_df,          \* df[mask]
    metrics,              \* the key metrics shown above the tabs
    daily_metrics,        \* sums by day
    product_analysis,     \* sums by product
    top_quantity,         \* the top products by quantity
    top_profit,           \* the top products by profit
    category_data,        \* sums by category
    customer_insights,    \* the result of create_customer_insights
    suspicious_orders,    \* the rows the three signals flag
    suspicious_ip_orders, \* the rows of the suspicious IPs
    suspicious_data,      \* both, without duplicates
    suspicious_details,   \* the table shown, sorted by total_price
    comparison,           \* the result of create_time_comparison
    time_args,            \* the metric and freq it was called with
    files,                \* the CSV files of the cache directory
    saved,                \* the arguments of the last save_dataframe
    loaded,               \* the file and the result of the last load
    session               \* st.session_state, the widgets and the place
                          \* of the script run of each browser session

vars == << df, last, filters, filtered_df, metrics, daily_metrics,
           product_analysis, top_quantity, top_profit, category_data,
           customer_insights, suspicious_orders, suspicious_ip_orders,
           suspicious_data, suspicious_details, comparison, time_args,
           files, saved, loaded, session >>

\* the tables of a script run
run_vars == << filters, filtered_df, metrics, daily_metrics,
               product_analysis, top_quantity, top_profit, category_data,
               customer_insights, suspicious_orders, suspicious_ip_orders,
               suspicious_data, suspicious_details >>

\* the files and what was read from them
io_vars == << files, saved, loaded, session >>

NoFiles == [f \in Filenames |-> NoFile]

(***************************************************************************)
(* A browser session: st.session_state (the keys data, data_source and     *)
(* current_file_hash), the file uploader, the 'Clear Current Data' button  *)
(* and the place of the script run.  The cache directory is one directory  *)
(* of the server process, the same for every session.  loads and cleared   *)
(* are history: the executions of load_data since the content of the       *)
(* uploader changed, and whether the data was cleared and not loaded       *)
(* since.                                                                  *)
(***************************************************************************)
Sessions == {"A", "B"}

UploadedFile(name, d) ==
    [isnone |-> FALSE, name |-> name, contents |-> to_csv(d)]

NoUpload == [isnone |-> TRUE, name |-> "", contents |-> NoFile]

FileA == UploadedFile("a.csv", Table(<<VariedRow(1, 1)>>))

FileB == UploadedFile("b.csv", Table(<<VariedRow(1, 3), VariedRow(2, 2)>>))

\* the content of a.csv under another name
FileACopy == UploadedFile("a_copy.csv", Table(<<VariedRow(1, 1)>>))

\* base64.b64encode(file_contents).decode(): one-to-one on the contents
b64encode(contents) == [base64 |-> contents]

NoSource == [isnone |-> TRUE, name |-> ""]

Source(name) == [isnone |-> FALSE, name |-> name]

NewSession ==
    [pc |-> "idle", has_state |-> FALSE, data |-> None,
     data_source |-> NoSource, has_hash |-> FALSE,
     current_file_hash |-> b64encode(NoFile), uploaded_file |-> NoUpload,
     button |-> FALSE, shown |-> "nothing", loads |-> 0, cleared |-> FALSE]

\* the session after lines 369-372: the hash is left as it was
LoadedSessionWithoutHash(r, d) ==
    [r EXCEPT !.data = d,
              !.data_source = Source(r.uploaded_file.name),
              !.pc = "start", !.button = FALSE,
              !.loads = IF @ < MaxLoads THEN @ + 1 ELSE @,
              !.cleared = FALSE]

\* the session after lines 369-372: data, hash and source are set and
\* st.rerun() starts the script again
LoadedSession(r, d) ==
    [r EXCEPT !.data = d,
              !.has_hash = TRUE,
              !.current_file_hash = b64encode(r.uploaded_file.contents),
              !.data_source = Source(r.uploaded_file.name),
              !.pc = "start", !.button = FALSE,
              !.loads = IF @ < MaxLoads THEN @ + 1 ELSE @,
              !.cleared = FALSE]

\* the session after lines 134-136 with the hash of the file deleted too
ClearedSessionForgetsHash(r) ==
    [r EXCEPT !.data = None, !.data_source = NoSource,
              !.has_hash = FALSE,
              !.pc = "start", !.button = FALSE, !.cleared = TRUE]

\* the session after lines 134-136: data and source are None and
\* st.rerun() starts the script again
ClearedSession(r) ==
    [r EXCEPT !.data = None, !.data_source = NoSource,
              !.pc = "start", !.button = FALSE, !.cleared = TRUE]

NotSaved == [filename |-> DefaultCache, df |-> None]

NotLoaded == [filename |-> DefaultCache, df |-> None]

NoFilters ==
    [date_range |-> <<0, 0>>, price_range |-> <<0, 0>>,
     selected_category |-> "All", selected_product |-> "All",
     selected_payment |-> "All", selected_shipping |-> "All",
     suspicious_threshold |-> 95]

NoInsights == create_customer_insights(<<>>)

Nothing ==
    /\ last = "none"
    /\ filters = NoFilters
    /\ filtered_df = <<>>
    /\ metrics = NoMetrics
    /\ daily_metrics = <<>>
    /\ product_analysis = <<>>
    /\ top_quantity = <<>>
    /\ top_profit = <<>>
    /\ category_data = <<>>
    /\ customer_insights = NoInsights
    /\ suspicious_orders = <<>>
    /\ suspicious_ip_orders = <<>>
    /\ suspicious_data = <<>>
    /\ suspicious_details = <<>>
    /\ comparison = <<>>
    /\ time_args = [metric |-> "total_price", freq |-> "M"]
    /\ saved = NotSaved
    /\ loaded = NotLoaded
    /\ session = [s \in Sessions |-> NewSession]

\* the stages are given short stores of varied rows and long stores of
\* catalogue rows
Init == df \in VariedStores \cup LongStores /\ Nothing /\ files = NoFiles

\* a page of one of the applications is shown
PageIsUp == last \in {"create_dashboard", "create_streamlit_app"}

(***************************************************************************)
(* create_dashboard(df) of dashboard_app.py, one script run: the widgets   *)
(* are read, the filter is applied and every tab is computed.  On an empty *)
(* store the run ends in an exception before any table is derived          *)
(* (len(filtered_df) / len(df)), so the action needs a row.  The tables    *)
(* are locals of the run: a run starts with none of them.                  *)
(***************************************************************************)
CreateDashboard ==
    /\ last = "none"
    /\ df.rows # <<>>
    /\ \E f \in WidgetChoices(df.rows) :
        LET view == ApplyFilters(df.rows, f)
            products == ProductAnalysis(view)
            flagged == SuspiciousOrders(view, f.suspicious_threshold)
            by_ip == SuspiciousIpOrders(view)
            data == SuspiciousData(flagged, by_ip)
        IN  /\ filters' = f
            /\ filtered_df' = view
            /\ metrics' = KeyMetrics(df.rows, view)
            /\ daily_metrics' = DailyMetrics(view)
            /\ category_data' = CategoryData(view)
            /\ product_analysis' = products
            /\ top_quantity' = nlargest(TopN, "quantity", products)
            /\ top_profit' = nlargest(TopN, "profit", products)
            /\ customer_insights' = create_customer_insights(view)
            /\ suspicious_orders' = flagged
            /\ suspicious_ip_orders' = by_ip
            /\ suspicious_data' = data
            /\ suspicious_details' = SuspiciousDetails(data)
    /\ last' = "create_dashboard"
    /\ UNCHANGED io_vars
    /\ UNCHANGED <<df, comparison, time_args>>

(***************************************************************************)
(* create_streamlit_app() of testing.py, one script run: the date and      *)
(* category filter, the daily sums, the top products by quantity           *)
(* (sort_values(...).head(10)) and the three signals at the 95th           *)
(* percentile.                                                             *)
(***************************************************************************)
CreateStreamlitApp ==
    /\ last = "none"
    /\ df.rows # <<>>
    /\ \E f \in BasicWidgetChoices(df.rows) :
        LET view == ApplyFiltersBasic(df.rows, f)
            products == ProductAnalysis(view)
        IN  /\ filters' = f
            /\ filtered_df' = view
            /\ metrics' = KeyMetricsBasic(view)
            /\ daily_metrics' = DailyMetrics(view)
            /\ product_analysis' = products
            /\ top_quantity' =
                   Head_n(SortValuesDesc(products, "quantity"), TopN)
            /\ suspicious_orders' = SuspiciousOrders(view, FixedPercentile)
    /\ top_profit' = <<>>
    /\ category_data' = <<>>
    /\ customer_insights' = NoInsights
    /\ suspicious_ip_orders' = <<>>
    /\ suspicious_data' = <<>>
    /\ suspicious_details' = <<>>
    /\ last' = "create_streamlit_app"
    /\ UNCHANGED io_vars
    /\ UNCHANGED <<df, comparison, time_args>>

(***************************************************************************)
(* The stage functions as the tests call them, on the whole table.  The    *)
(* tests are a process of their own: they call no stage while a page of    *)
(* an application is up, and start no application.                         *)
(***************************************************************************)
CreateTimeComparison ==
    /\ ~PageIsUp
    /\ \E metric \in {"total_price", "profit"}, freq \in {"D", "M"} :
        /\ df' = WithPeriod(df, freq)
        /\ comparison' = TimeComparison(df', metric)
        /\ time_args' = [metric |-> metric, freq |-> freq]
    /\ last' = "create_time_comparison"
    /\ UNCHANGED io_vars
    /\ UNCHANGED << filters, filtered_df, metrics, daily_metrics,
                    product_analysis,
                    top_quantity, top_profit, category_data,
                    customer_insights, suspicious_orders,
                    suspicious_ip_orders, suspicious_data,
                    suspicious_details >>

PlotCategoryDistribution ==
    /\ ~PageIsUp
    /\ category_data' = CategoryData(df.rows)
    /\ last' = "plot_category_distribution"
    /\ UNCHANGED io_vars
    /\ UNCHANGED << df, filters, filtered_df, metrics, daily_metrics,
                    product_analysis, top_quantity, top_profit,
                    customer_insights, suspicious_orders,
                    suspicious_ip_orders, suspicious_data,
                    suspicious_details, comparison, time_args >>

CreateCustomerInsights ==
    /\ ~PageIsUp
    /\ customer_insights' = create_customer_insights(df.rows)
    /\ last' = "create_customer_insights"
    /\ UNCHANGED io_vars
    /\ UNCHANGED << df, filters, filtered_df, metrics, daily_metrics,
                    product_analysis, top_quantity, top_profit,
                    category_data, suspicious_orders, suspicious_ip_orders,
                    suspicious_data, suspicious_details, comparison, time_args >>

(***************************************************************************)
(* A widget is moved: Streamlit runs the script again from its first line, *)
(* and the tables of the run before are gone.                              *)
(***************************************************************************)
Rerun ==
    /\ PageIsUp
    /\ last' = "none"
    /\ UNCHANGED io_vars
    /\ filters' = NoFilters
    /\ filtered_df' = <<>>
    /\ metrics' = NoMetrics
    /\ daily_metrics' = <<>>
    /\ product_analysis' = <<>>
    /\ top_quantity' = <<>>
    /\ top_profit' = <<>>
    /\ category_data' = <<>>
    /\ customer_insights' = NoInsights
    /\ suspicious_orders' = <<>>
    /\ suspicious_ip_orders' = <<>>
    /\ suspicious_data' = <<>>
    /\ suspicious_details' = <<>>
    /\ UNCHANGED <<df, comparison, time_args>>

\* the Streamlit applications, and the direct calls of the stage functions
Next ==
    \/ CreateDashboard
    \/ CreateStreamlitApp
    \/ Rerun
    \/ CreateTimeComparison
    \/ PlotCategoryDistribution
    \/ CreateCustomerInsights

Spec == Init /\ [][Next]_vars

(***************************************************************************)
(* The filter of create_dashboard as a function of the store and a filter  *)
(* specification: the mask is computed and the view is returned.  No line  *)
(* compares the two bounds of a range, and no exception of the name        *)
(* InvalidRange is defined.                                                *)
(***************************************************************************)
FilterStage ==
    /\ ~PageIsUp
    /\ df.rows # <<>>
    /\ \E f \in FilterSpecifications(df.rows) :
        /\ filters' = f
        /\ filtered_df' = ApplyFilters(df.rows, f)
    /\ last' = "filter"
    /\ UNCHANGED io_vars
    /\ UNCHANGED << df, metrics, daily_metrics, product_analysis,
                    top_quantity, top_profit, category_data,
                    customer_insights, suspicious_orders,
                    suspicious_ip_orders, suspicious_data,
                    suspicious_details, comparison, time_args >>

InitFilter == df \in VariedStores /\ Nothing /\ files = NoFiles

NextFilter == FilterStage

SpecFilter == InitFilter /\ [][NextFilter]_vars

(***************************************************************************)
(* The cache functions as the tests call them: save_dataframe(df, f),      *)
(* load_cached_data(f) and load_data(path) on the files of a directory,    *)
(* and create_time_comparison on the same table.                           *)
(***************************************************************************)
SaveDataframe ==
    /\ \E f \in Filenames :
        /\ files' = save_dataframe(files, df, f)
        /\ saved' = [filename |-> f, df |-> Some(df)]
    /\ last' = "save_dataframe"
    /\ UNCHANGED <<df, run_vars, comparison, time_args, loaded, session>>

LoadCachedData ==
    /\ \E f \in Filenames :
           loaded' = [filename |-> f, df |-> load_cached_data(files, f)]
    /\ last' = "load_cached_data"
    /\ UNCHANGED << df, run_vars, comparison, time_args, files, saved,
                    session >>

\* load_data(path) of a file that exists (read_csv raises on the others)
LoadData ==
    /\ \E f \in Filenames :
        /\ files[f].exists
        /\ LET result == load_data(files, files[f])
           IN  /\ loaded' = [filename |-> f, df |-> result.df]
               /\ files' = result.files
               /\ saved' = [filename |-> DefaultCache, df |-> result.df]
    /\ last' = "load_data"
    /\ UNCHANGED <<df, run_vars, comparison, time_args, session>>

InitCache == df \in CachedStores /\ Nothing /\ files = NoFiles

NextCache ==
    \/ SaveDataframe
    \/ LoadCachedData
    \/ LoadData
    \/ CreateTimeComparison

SpecCache == InitCache /\ [][NextCache]_vars

(***************************************************************************)
(* The main flow of dashboard_app.py in session s.  The user opens the     *)
(* page or moves a widget, puts a file into the uploader or takes it out,  *)
(* or clicks 'Clear Current Data' (which is on the page when the dashboard *)
(* is): each of these starts a script run.  A script run goes through      *)
(* lines 350-352, the cache check and the cache read of lines 355-359, the *)
(* uploader of lines 361-372 and the rendering of lines 374-377; st.rerun  *)
(* ends the run and starts the next.  The tables create_dashboard derives  *)
(* are those of CreateDashboard; here the run shows the dashboard.         *)
(***************************************************************************)
SessionUnchanged == UNCHANGED <<df, last, run_vars, comparison, time_args,
                                loaded>>

ScriptRerun(s) ==
    /\ session[s].pc = "idle"
    /\ session' = [session EXCEPT ![s].pc = "start", ![s].button = FALSE]
    /\ UNCHANGED <<files, saved>>
    /\ SessionUnchanged

Upload(s, uploads) ==
    /\ session[s].pc = "idle"
    /\ \E file \in uploads :
        /\ file # session[s].uploaded_file
        /\ session' =
               [session EXCEPT
                   ![s].uploaded_file = file,
                   ![s].pc = "start",
                   ![s].button = FALSE,
                   ![s].loads =
                       IF file.contents = session[s].uploaded_file.contents
                       THEN @ ELSE 0]
    /\ UNCHANGED <<files, saved>>
    /\ SessionUnchanged

RemoveUpload(s) ==
    /\ session[s].pc = "idle"
    /\ ~session[s].uploaded_file.isnone
    /\ session' = [session EXCEPT ![s].uploaded_file = NoUpload,
                                  ![s].pc = "start",
                                  ![s].button = FALSE]
    /\ UNCHANGED <<files, saved>>
    /\ SessionUnchanged

ClickClear(s) ==
    /\ session[s].pc = "idle"
    /\ session[s].shown = "dashboard"
    /\ session' = [session EXCEPT ![s].pc = "start", ![s].button = TRUE]
    /\ UNCHANGED <<files, saved>>
    /\ SessionUnchanged

\* lines 350-352
InitState(s) ==
    /\ session[s].pc = "start"
    /\ session' =
           [session EXCEPT
               ![s] = IF session[s].has_state
                      THEN [@ EXCEPT !.pc = "cache"]
                      ELSE [@ EXCEPT !.pc = "cache", !.has_state = TRUE,
                                     !.data = None,
                                     !.data_source = NoSource]]
    /\ UNCHANGED <<files, saved>>
    /\ SessionUnchanged

\* lines 355-356 and 62-63: os.path.exists(cache_path)
CacheExists(s) ==
    /\ session[s].pc = "cache"
    /\ session' =
           [session EXCEPT
               ![s].pc = IF session[s].data.isnone
                            /\ files[DefaultCache].exists
                         THEN "read" ELSE "uploader"]
    /\ UNCHANGED <<files, saved>>
    /\ SessionUnchanged

\* lines 64-66 and 357-359: pd.read_csv(cache_path), which raises
\* FileNotFoundError when the file has been removed since os.path.exists
CacheRead(s) ==
    /\ session[s].pc = "read"
    /\ session' =
           [session EXCEPT
               ![s] = IF files[DefaultCache].exists
                      THEN [@ EXCEPT
                               !.data = load_cached_data(files, DefaultCache),
                               !.data_source = Source("Cached Data"),
                               !.cleared = FALSE,
                               !.pc = "uploader"]
                      ELSE [@ EXCEPT !.shown = "exception", !.pc = "idle"]]
    /\ UNCHANGED <<files, saved>>
    /\ SessionUnchanged

\* lines 361-372
Uploader(s) ==
    /\ session[s].pc = "uploader"
    /\ LET r == session[s]
           file_hash == b64encode(r.uploaded_file.contents)
       IN  IF /\ ~r.uploaded_file.isnone
              /\ (~r.has_hash \/ r.current_file_hash # file_hash)
           THEN LET result == load_data(files, r.uploaded_file.contents)
                IN  /\ session' =
                           [session EXCEPT
                               ![s] = LoadedSession(r, result.df)]
                    /\ files' = result.files
                    /\ saved' = [filename |-> DefaultCache,
                                 df |-> result.df]
           ELSE /\ session' = [session EXCEPT ![s].pc = "render"]
                /\ UNCHANGED <<files, saved>>
    /\ SessionUnchanged

\* lines 374-377, and lines 131-136 of create_dashboard up to
\* os.path.exists
Render(s) ==
    /\ session[s].pc = "render"
    /\ LET r == session[s]
       IN  session' =
               [session EXCEPT
                   ![s] = IF r.data.isnone
                          THEN [r EXCEPT !.shown = "info", !.pc = "idle"]
                          ELSE IF ~r.button
                          THEN [r EXCEPT !.shown = "dashboard",
                                         !.pc = "idle"]
                          ELSE IF files[DefaultCache].exists
                          THEN [r EXCEPT !.pc = "remove"]
                          ELSE ClearedSession(r)]
    /\ UNCHANGED <<files, saved>>
    /\ SessionUnchanged

\* lines 133-136: os.remove, which raises FileNotFoundError when the file
\* has been removed since os.path.exists
Remove(s) ==
    /\ session[s].pc = "remove"
    /\ IF files[DefaultCache].exists
       THEN /\ files' = [files EXCEPT ![DefaultCache] = NoFile]
            /\ session' = [session EXCEPT ![s] = ClearedSession(session[s])]
       ELSE /\ files' = files
            /\ session' = [session EXCEPT ![s].shown = "exception",
                                          ![s].pc = "idle"]
    /\ UNCHANGED saved
    /\ SessionUnchanged

\* a step of the script run of session s
ScriptStep(s) ==
    \/ InitState(s)
    \/ CacheExists(s)
    \/ CacheRead(s)
    \/ Uploader(s)
    \/ Render(s)
    \/ Remove(s)

\* something the user of session s does with the files of uploads
UserStep(s, uploads) ==
    \/ ScriptRerun(s)
    \/ Upload(s, uploads)
    \/ RemoveUpload(s)
    \/ ClickClear(s)

\* one session, no other writer of the cache; the cache may hold the
\* file an earlier session left
InitSession ==
    /\ df = Table(<<>>)
    /\ Nothing
    /\ files \in {NoFiles,
                  [NoFiles EXCEPT ![DefaultCache] = FileB.contents]}

NextSession ==
    \/ UserStep("A", {FileA, FileB, FileACopy})
    \/ ScriptStep("A")

SpecSession == InitSession /\ [][NextSession]_vars

\* the same, with every script run carried on
SpecSessionFair == SpecSession /\ WF_vars(ScriptStep("A"))

\* two sessions at once on an empty cache; each has a file of its own
UploadsOf(s) == IF s = "A" THEN {FileA} ELSE {FileB}

InitSessions == df = Table(<<>>) /\ Nothing /\ files = NoFiles

NextSessions ==
    \E s \in Sessions : UserStep(s, UploadsOf(s)) \/ ScriptStep(s)

SpecSessions == InitSessions /\ [][NextSessions]_vars

(***************************************************************************)
(* The customer roll-up on stores of many customers: the dashboard, and    *)
(* the direct call of create_customer_insights.                            *)
(***************************************************************************)
InitInsights == df \in CustomerStores /\ Nothing /\ files = NoFiles

NextInsights ==
    \/ CreateDashboard
    \/ Rerun
    \/ CreateCustomerInsights

SpecInsights == InitInsights /\ [][NextInsights]_vars

(***************************************************************************)
(* Properties.                                                             *)
(***************************************************************************)
Ran(name) == last = name

AppRan == last \in {"create_dashboard", "create_streamlit_app"}

\* the rows of a table that satisfy P, as a set
RowsWhere(rows, P(_)) == {r \in Range(rows) : P(r)}

\* the sum of column col over the rows that satisfy P
SumWhere(rows, col, P(_)) == SumSeq(Column(SelectSeq(rows, P), col))

\* the rows keep the order of the store and none is repeated
InStoreOrder(rows) ==
    \A i, j \in DOMAIN rows : i < j => rows[i].order_id < rows[j].order_id

(***************************************************************************)
(* C1: the filtered view of a run is exactly the rows r of the store with  *)
(* date_from <= date(r) <= date_to, price_min <= total_price <= price_max  *)
(* and, for each select box that is not at 'All', the selected value in    *)
(* its column; it is a part of the store, and filtering it again with the  *)
(* same widget values returns it.                                          *)
(***************************************************************************)
Selected(r, col, choice) == choice = "All" \/ r[col] = choice

Wanted(r) ==
    /\ filters.date_range[1] <= DateOf(r.transaction_date)
    /\ DateOf(r.transaction_date) <= filters.date_range[2]
    /\ filters.price_range[1] <= r.total_price
    /\ r.total_price <= filters.price_range[2]
    /\ Selected(r, "category", filters.selected_category)
    /\ Selected(r, "product_name", filters.selected_product)
    /\ Selected(r, "payment_method", filters.selected_payment)
    /\ Selected(r, "shipping_method", filters.selected_shipping)

C1_FilteredViewIsExact ==
    AppRan =>
        /\ Range(filtered_df) = RowsWhere(df.rows, Wanted)
        /\ Range(filtered_df) \subseteq Range(df.rows)
        /\ InStoreOrder(filtered_df)
        /\ Ran("create_dashboard")
               => ApplyFilters(filtered_df, filters) = filtered_df
        /\ Ran("create_streamlit_app")
               => ApplyFiltersBasic(filtered_df, filters) = filtered_df

\* a run with the category and the price range moved, which keeps some
\* rows and drops others
C1_Witness ==
    /\ Ran("create_dashboard")
    /\ filters.selected_category # "All"
    /\ filters.price_range # DefaultFilters(df.rows).price_range
    /\ filtered_df # <<>>
    /\ Len(filtered_df) < Len(df.rows)
    /\ \E r \in Range(df.rows) :
           /\ r.category = filters.selected_category
           /\ r \notin Range(filtered_df)

(***************************************************************************)
(* C2: no stage changes the table it is given: after a call the table has  *)
(* the columns and the rows it had before.                                 *)
(***************************************************************************)
C2_NoStageMutatesStore ==
    [][df'.columns = df.columns /\ df'.rows = df.rows]_vars

(***************************************************************************)
(* The four signals of the fraud tab, on a row of the filtered view.       *)
(***************************************************************************)
HighValue(r, rows, p) ==
    /\ rows # <<>>
    /\ 100 * r.total_price > quantile(Column(rows, "total_price"), p).times100

OffHours(r) == HourOf(r.transaction_date) \in 1..4

HighQuantity(r, rows) ==
    /\ rows # <<>>
    /\ 100 * r.quantity > quantile(Column(rows, "quantity"), 95).times100

OrdersOfIp(rows, ip) == {i \in DOMAIN rows : rows[i].ip_address = ip}

\* the number of orders of each IP of the view, one entry per IP
OrdersPerIp(rows) ==
    LET ips == {rows[i].ip_address : i \in DOMAIN rows}
        one == CHOOSE s \in [1..Cardinality(ips) -> ips] :
                   \A ip \in ips : \E k \in DOMAIN s : s[k] = ip
    IN  [k \in 1..Cardinality(ips) |->
            Cardinality(OrdersOfIp(rows, one[k]))]

BusyIp(r, rows) ==
    /\ rows # <<>>
    /\ 100 * Cardinality(OrdersOfIp(rows, r.ip_address))
           > quantile(OrdersPerIp(rows), 95).times100

(***************************************************************************)
(* C3: a row of the filtered view is flagged by the three signals if and   *)
(* only if its total_price is above the chosen percentile of total_price   *)
(* over the view, or its hour is in 1..4, or its quantity is above the     *)
(* 95th percentile of quantity over the view.                              *)
(***************************************************************************)
C3_ThreeSignals ==
    AppRan =>
        /\ Range(suspicious_orders) \subseteq Range(filtered_df)
        /\ InStoreOrder(suspicious_orders)
        /\ \A r \in Range(filtered_df) :
               r \in Range(suspicious_orders)
                   <=> \/ HighValue(r, filtered_df,
                                    filters.suspicious_threshold)
                       \/ OffHours(r)
                       \/ HighQuantity(r, filtered_df)

\* a run that flags one row by its price alone, one by its hour alone,
\* one by its quantity alone, and leaves one row unflagged
C3_Witness ==
    /\ Ran("create_dashboard")
    /\ \E a, b, c \in Range(suspicious_orders) :
           /\ HighValue(a, filtered_df, filters.suspicious_threshold)
           /\ ~OffHours(a) /\ ~HighQuantity(a, filtered_df)
           /\ OffHours(b)
           /\ ~HighValue(b, filtered_df, filters.suspicious_threshold)
           /\ ~HighQuantity(b, filtered_df)
           /\ HighQuantity(c, filtered_df)
           /\ ~OffHours(c)
           /\ ~HighValue(c, filtered_df, filters.suspicious_threshold)
    /\ \E r \in Range(filtered_df) : r \notin Range(suspicious_orders)

(***************************************************************************)
(* C4: for every two percentiles p1 <= p2 of the slider (90..99), the rows *)
(* the three signals flag with p2 are among those they flag with p1.       *)
(***************************************************************************)
Flagged(p) == Range(SuspiciousOrders(filtered_df, p))

C4_MonotonicInPercentile ==
    Ran("create_dashboard") =>
        /\ Range(suspicious_orders) = Flagged(filters.suspicious_threshold)
        /\ \A by_p \in {{<<p, Flagged(p)>> : p \in 90..99}} :
               \A p1, p2 \in by_p :
                   p1[1] <= p2[1] => p2[2] \subseteq p1[2]

\* a run at the 99th percentile whose flagged rows are fewer than those of
\* the 90th percentile on the same view
C4_Witness ==
    /\ Ran("create_dashboard")
    /\ filters.suspicious_threshold = 99
    /\ Range(suspicious_orders) # Flagged(90)
    /\ Range(suspicious_orders) \subseteq Flagged(90)

(***************************************************************************)
(* C5: a row of the filtered view is among the orders of suspicious IPs if *)
(* and only if the number of rows of the view with its ip_address is above *)
(* the 95th percentile of the numbers of orders per IP; then every row of  *)
(* that IP is among them.                                                  *)
(***************************************************************************)
C5_IpByAssociation ==
    Ran("create_dashboard") =>
        /\ Range(suspicious_ip_orders) \subseteq Range(filtered_df)
        /\ InStoreOrder(suspicious_ip_orders)
        /\ \A r \in Range(filtered_df) :
               r \in Range(suspicious_ip_orders) <=> BusyIp(r, filtered_df)
        /\ \A r \in Range(suspicious_ip_orders) :
               \A i \in OrdersOfIp(filtered_df, r.ip_address) :
                   filtered_df[i] \in Range(suspicious_ip_orders)

\* a run in which one IP with several orders is suspicious and another IP
\* is not
C5_Witness ==
    /\ Ran("create_dashboard")
    /\ Len(suspicious_ip_orders) >= 2
    /\ \E r \in Range(filtered_df) : r \notin Range(suspicious_ip_orders)

(***************************************************************************)
(* C6: the table of suspicious orders holds the orders flagged by the      *)
(* three signals and those of the suspicious IPs, each order_id once, in   *)
(* descending order of total_price; a row of the view is in it if and only *)
(* if one of the four signals holds of it.                                 *)
(***************************************************************************)
OrderIds(rows) == {rows[i].order_id : i \in DOMAIN rows}

C6_SuspiciousOutput ==
    Ran("create_dashboard") =>
        /\ OrderIds(suspicious_details)
               = OrderIds(suspicious_orders) \cup OrderIds(suspicious_ip_orders)
        /\ Cardinality(OrderIds(suspicious_details)) = Len(suspicious_details)
        /\ \A i, j \in DOMAIN suspicious_details :
               i < j => suspicious_details[i].total_price
                            >= suspicious_details[j].total_price
        /\ \A r \in Range(filtered_df) :
               r.order_id \in OrderIds(suspicious_details)
                   <=> \/ HighValue(r, filtered_df,
                                    filters.suspicious_threshold)
                       \/ OffHours(r)
                       \/ HighQuantity(r, filtered_df)
                       \/ BusyIp(r, filtered_df)
        /\ \A d \in Range(suspicious_details) :
               \E r \in Range(filtered_df) :
                   \A c \in DetailColumns : d[c] = r[c]

\* a run with an order in both sets, an order in one of them only, and
\* two prices in the table
C6_Witness ==
    /\ Ran("create_dashboard")
    /\ OrderIds(suspicious_orders) \cap OrderIds(suspicious_ip_orders) # {}
    /\ OrderIds(suspicious_orders) # OrderIds(suspicious_ip_orders)
    /\ \E a, b \in Range(suspicious_details) : a.total_price # b.total_price
    /\ \E r \in Range(filtered_df) :
           r.order_id \notin OrderIds(suspicious_details)

(***************************************************************************)
(* C7: on an empty filtered view the percentile is NaN, no comparison with *)
(* it holds, and the three-signal set, the orders of suspicious IPs and    *)
(* their union are empty.                                                  *)
(***************************************************************************)
C7_EmptyViewFlagsNothing ==
    (Ran("create_dashboard") /\ filtered_df = <<>>) =>
        /\ quantile(Column(filtered_df, "total_price"),
                    filters.suspicious_threshold).isnan
        /\ quantile(Column(IpCounts(filtered_df), "order_id"),
                    FixedPercentile).isnan
        /\ \A x \in 0..1 :
               ~GreaterThan(x, quantile(Column(filtered_df, "quantity"),
                                        FixedPercentile))
        /\ suspicious_orders = <<>>
        /\ suspicious_ip_orders = <<>>
        /\ suspicious_data = <<>>
        /\ suspicious_details = <<>>

\* a run on a store with rows whose filter keeps none of them
C7_Witness ==
    /\ Ran("create_dashboard")
    /\ df.rows # <<>>
    /\ filtered_df = <<>>
    /\ suspicious_data = <<>>

(***************************************************************************)
(* C8: the sums by day of a run, and the sums by period of                 *)
(* create_time_comparison, have one bucket for each period in which the    *)
(* table has a row and no other, in ascending order of the period; each    *)
(* bucket holds the sums over the rows of its period, and the buckets'     *)
(* total_price adds up to that of the table.                               *)
(***************************************************************************)
BucketsAreExact(buckets, rows, keyname, KeyOf(_), sums) ==
    /\ {buckets[b][keyname] : b \in DOMAIN buckets}
           = {KeyOf(rows[i]) : i \in DOMAIN rows}
    /\ \A a, b \in DOMAIN buckets :
           a < b => Rank(keyname, buckets[a][keyname])
                        < Rank(keyname, buckets[b][keyname])
    /\ \A b \in DOMAIN buckets : \A c \in sums :
           buckets[b][c]
               = SumWhere(rows, c, LAMBDA r : KeyOf(r) = buckets[b][keyname])
    /\ \A c \in sums :
           SumSeq(Column(buckets, c)) = SumSeq(Column(rows, c))

C8_TimeBuckets ==
    /\ AppRan =>
           BucketsAreExact(daily_metrics, filtered_df, "transaction_date",
                           LAMBDA r : DateOf(r.transaction_date),
                           {"profit", "total_price", "cost"})
    /\ Ran("create_time_comparison") =>
           /\ \A b \in DOMAIN comparison :
                  DOMAIN comparison[b] = {"period", time_args.metric}
           /\ BucketsAreExact(comparison, df.rows, "period",
                              LAMBDA r : to_period(r.transaction_date,
                                                   time_args.freq),
                              {time_args.metric})

\* sums by day of a view with two rows on one day and a later day with
\* none between them that has a bucket
C8_Witness ==
    /\ Ran("create_dashboard")
    /\ Len(daily_metrics) = 2
    /\ Len(filtered_df) = 3
    /\ daily_metrics[2].transaction_date
           > daily_metrics[1].transaction_date + 1
    /\ DateOf(filtered_df[1].transaction_date)
           > DateOf(filtered_df[2].transaction_date)

(***************************************************************************)
(* C9: the top products by quantity and by profit of a run are min(10,     *)
(* number of products of the view) products, each with the sums over its   *)
(* rows, in descending order of the metric, and no product left out has a  *)
(* larger metric than one that is in.                                      *)
(***************************************************************************)
ProductsOf(rows) == {rows[i].product_name : i \in DOMAIN rows}

SumOfProduct(c, name) ==
    SumWhere(filtered_df, c, LAMBDA r : r.product_name = name)

TopIsExact(top, metric) ==
    /\ Len(top) = Min(10, Cardinality(ProductsOf(filtered_df)))
    /\ Cardinality(ProductsOf(top)) = Len(top)
    /\ ProductsOf(top) \subseteq ProductsOf(filtered_df)
    /\ \A i \in DOMAIN top : \A c \in {"quantity", "profit", "total_price"} :
           top[i][c] = SumOfProduct(c, top[i].product_name)
    /\ \A i, j \in DOMAIN top : i < j => top[i][metric] >= top[j][metric]
    /\ \A name \in ProductsOf(filtered_df) \ ProductsOf(top) :
           \A i \in DOMAIN top : SumOfProduct(metric, name) <= top[i][metric]

C9_TopProducts ==
    /\ AppRan => TopIsExact(top_quantity, "quantity")
    /\ Ran("create_dashboard") => TopIsExact(top_profit, "profit")

\* a run on a view of more than ten products, one of them left out of
\* the top by quantity with the quantity of one that is in, and the two
\* tops led by different products
C9_Witness ==
    /\ Ran("create_dashboard")
    /\ Cardinality(ProductsOf(filtered_df)) > 10
    /\ Len(top_quantity) = 10
    /\ \E name \in ProductsOf(filtered_df) \ ProductsOf(top_quantity) :
           SumOfProduct("quantity", name) = top_quantity[10].quantity
    /\ top_quantity[1].product_name # top_profit[1].product_name

(***************************************************************************)
(* C10: create_customer_insights returns the number of customers of the    *)
(* view, the number of them with more than one row, and as avg_order_value *)
(* the sum of total_price divided by the number of customers.              *)
(***************************************************************************)
CustomersOf(rows) == {rows[i].customer_id : i \in DOMAIN rows}

OrdersOf(rows, cust) == {i \in DOMAIN rows : rows[i].customer_id = cust}

RepeatCustomers(rows) ==
    {cust \in CustomersOf(rows) : Cardinality(OrdersOf(rows, cust)) > 1}

\* the insights were computed on this table
InsightsOn(rows) ==
    \/ Ran("create_dashboard") /\ rows = filtered_df
    \/ Ran("create_customer_insights") /\ rows = df.rows

CountsAndAverage(rows) ==
    LET ci == customer_insights
    IN  /\ ci.total_customers = Cardinality(CustomersOf(rows))
        /\ ci.repeat_customers = Cardinality(RepeatCustomers(rows))
        /\ ci.repeat_customers <= ci.total_customers
        /\ ci.avg_order_value.isnan <=> ci.total_customers = 0
        /\ ci.total_customers > 0 =>
               ci.avg_order_value.num * ci.total_customers
                   = SumSeq(Column(rows, "total_price"))
                         * ci.avg_order_value.den

\* the average is the mean of total_price over the rows
IsPerOrderMean(rows) ==
    customer_insights.avg_order_value.num * Len(rows)
        = SumSeq(Column(rows, "total_price"))
              * customer_insights.avg_order_value.den

\* the claim as it stands: the average is not the per-order mean whenever
\* a customer has more than one row
C10_NeverPerOrderMean ==
    \A rows \in {filtered_df, df.rows} :
        InsightsOn(rows) =>
            /\ CountsAndAverage(rows)
            /\ RepeatCustomers(rows) # {} => ~IsPerOrderMean(rows)

\* amended: it is not the per-order mean whenever a customer has more than
\* one row and the sum of total_price is not zero
C10_CustomerInsights ==
    \A rows \in {filtered_df, df.rows} :
        InsightsOn(rows) =>
            /\ CountsAndAverage(rows)
            /\ (/\ RepeatCustomers(rows) # {}
                /\ SumSeq(Column(rows, "total_price")) # 0)
                   => ~IsPerOrderMean(rows)

\* a run on a view of three rows of two customers, one of them with two
\* rows, with a sum that is not zero
C10_Witness ==
    /\ Ran("create_dashboard")
    /\ Len(filtered_df) = 3
    /\ customer_insights.total_customers = 2
    /\ customer_insights.repeat_customers = 1
    /\ customer_insights.avg_order_value.num > 0
    /\ ~IsPerOrderMean(filtered_df)

(***************************************************************************)
(* C11: top_spenders holds min(10, number of customers) customers of the   *)
(* table the insights were computed on, each with the sum of its           *)
(* total_price, in descending order of that sum; of two customers with one *)
(* sum the one with the smaller customer_id comes first, and is the one    *)
(* that is in when only one of them is.                                    *)
(***************************************************************************)
SpendOf(rows, cust) ==
    SumWhere(rows, "total_price", LAMBDA r : r.customer_id = cust)

\* customer a goes before customer b: the larger sum, then the smaller id
SpendsBefore(rows, a, b) ==
    \/ SpendOf(rows, a) > SpendOf(rows, b)
    \/ /\ SpendOf(rows, a) = SpendOf(rows, b)
       /\ StrRank(a) < StrRank(b)

TopSpendersAreExact(rows) ==
    LET top == customer_insights.top_spenders
        ins == {top[i].customer_id : i \in DOMAIN top}
    IN  /\ Len(top) = Min(10, Cardinality(CustomersOf(rows)))
        /\ Cardinality(ins) = Len(top)
        /\ ins \subseteq CustomersOf(rows)
        /\ \A i \in DOMAIN top :
               /\ top[i].total_price = SpendOf(rows, top[i].customer_id)
               /\ top[i].order_id
                      = Cardinality(OrdersOf(rows, top[i].customer_id))
        /\ \A i, j \in DOMAIN top :
               i < j => SpendsBefore(rows, top[i].customer_id,
                                     top[j].customer_id)
        /\ \A out \in CustomersOf(rows) \ ins : \A c \in ins :
               SpendsBefore(rows, c, out)

C12_EmptyViewInsights ==
    \A rows \in {filtered_df, df.rows} :
        (InsightsOn(rows) /\ rows = <<>>) =>
            /\ customer_insights.total_customers = 0
            /\ customer_insights.repeat_customers = 0
            /\ customer_insights.top_spenders = <<>>
            /\ customer_insights.avg_order_value.isnan
            /\ customer_insights.avg_order_value.den # 0

\* a run of the dashboard on a store of three rows whose filter selects
\* none of them
C12_Witness ==
    /\ Ran("create_dashboard")
    /\ Len(df.rows) = 3
    /\ filtered_df = <<>>
    /\ customer_insights.total_customers = 0
    /\ customer_insights.avg_order_value.isnan

(***************************************************************************)
(* C13: the shares of the key metrics of a run.  As the claim states them: *)
(* the revenue share is the revenue of the view over the revenue of the    *)
(* store, 100% when the view is the whole store, 0 when the view is empty, *)
(* and 0 when the revenue of the store is 0; the margin is 0 when the      *)
(* revenue of the view is 0; the share of the orders is the rows of the    *)
(* view over the rows of the store.                                        *)
(***************************************************************************)
IsZero(q) == q.kind = "num" /\ q.num = 0

IsWhole(q) == q.kind = "num" /\ q.num = q.den

IsQuotient(q, a, b) == q.kind = "num" /\ q.num * b = a * q.den

StoreRevenue == SumSeq(Column(df.rows, "total_price"))

ViewRevenue == SumSeq(Column(filtered_df, "total_price"))

C13_SharesGuarded ==
    Ran("create_dashboard") =>
        /\ StoreRevenue # 0 =>
               IsQuotient(metrics.revenue_share, ViewRevenue, StoreRevenue)
        /\ filtered_df = df.rows => IsWhole(metrics.revenue_share)
        /\ filtered_df = <<>> => IsZero(metrics.revenue_share)
        /\ StoreRevenue = 0 => IsZero(metrics.revenue_share)
        /\ ViewRevenue # 0 =>
               IsQuotient(metrics.margin,
                          SumSeq(Column(filtered_df, "profit")), ViewRevenue)
        /\ ViewRevenue = 0 => IsZero(metrics.margin)
        /\ IsQuotient(metrics.order_share, Len(filtered_df), Len(df.rows))

(***************************************************************************)
(* C14: the filter returns no view when date_from > date_to or             *)
(* price_min > price_max (it raises InvalidRange instead).  As the claim   *)
(* states it: the filter never returns with such bounds.                   *)
(***************************************************************************)
InvertedBounds(f) ==
    \/ f.date_range[1] > f.date_range[2]
    \/ f.price_range[1] > f.price_range[2]

Follows(first, second) == last = first /\ last' = second

RoundTrip(tables) ==
    /\ (/\ Follows("save_dataframe", "load_cached_data")
        /\ loaded'.filename = saved.filename
        /\ saved.df \in tables)
           => loaded'.df = saved.df
    /\ last' = "load_cached_data"
           => (loaded'.df.isnone <=> ~files[loaded'.filename].exists)
    /\ (/\ Follows("save_dataframe", "load_data")
        /\ loaded'.filename = saved.filename
        /\ saved.df \in tables)
           => loaded'.df = saved.df
    /\ (/\ Follows("load_data", "load_cached_data")
        /\ loaded'.filename = DefaultCache)
           => loaded'.df = loaded.df

C16_RoundTripOfEveryTable == [][RoundTrip({saved.df})]_vars

\* the round trip of the tables that create_time_comparison has given no
\* column 'period'
RoundTripWithoutPeriod ==
    [][RoundTrip({d \in {saved.df} : "period" \notin Range(d.columns)})]_vars

(***************************************************************************)
(* C15: two sessions at once.  As the claim states it: the data a session  *)
(* holds is None or the table of a file this session uploaded, and a step  *)
(* of one session leaves what the other session would load from the cache  *)
(* as it was.                                                              *)
(***************************************************************************)
\* the tables of the files session s has to upload
OwnTables(s) ==
    IF s = "A" THEN {Some(Table(<<VariedRow(1, 1)>>))}
    ELSE {Some(Table(<<VariedRow(1, 3), VariedRow(2, 2)>>))}

HoldsOwnData(s) ==
    session[s].data.isnone \/ session[s].data \in OwnTables(s)

\* this step is a step of session s
StepOf(s) == session'[s] # session[s]

C15_SessionsIsolated ==
    [][\A s \in Sessions :
          /\ HoldsOwnData(s)'
          /\ StepOf(s) =>
                 load_cached_data(files', DefaultCache)
                     = load_cached_data(files, DefaultCache)]_vars

(***************************************************************************)
(* C17: at the end of every script run of a session, data is None if and   *)
(* only if data_source is None, and the run has shown the dashboard if and *)
(* only if data is not None.                                               *)
(***************************************************************************)
\* a script run of session s has come to its end and none is running
RunEnded(s) == session[s].pc = "idle" /\ session[s].shown # "nothing"

C17_SessionInvariant ==
    \A s \in Sessions :
        RunEnded(s) =>
            /\ session[s].data.isnone <=> session[s].data_source.isnone
            /\ session[s].shown = "dashboard" <=> ~session[s].data.isnone

(***************************************************************************)
(* C18: while one file content stays in the uploader of a session,         *)
(* load_data and the st.rerun() after it are executed at most once; the    *)
(* rerun starts with current_file_hash set to the hash of that content;    *)
(* the script run that follows goes on to the rendering of the dashboard   *)
(* without a further load or rerun, and reaches it; a run that has come to *)
(* the rendering starts a rerun only when 'Clear Current Data' was         *)
(* clicked.                                                                *)
(***************************************************************************)
\* the script run of session s holds data, the hash of the content of the
\* uploader, and no click
RunSettled(s) ==
    LET r == session[s]
    IN  /\ r.pc \in {"start", "cache", "uploader", "render"}
        /\ ~r.button
        /\ ~r.data.isnone
        /\ ~r.uploaded_file.isnone
        /\ r.has_hash
        /\ r.current_file_hash = b64encode(r.uploaded_file.contents)

DashboardShown(s) ==
    session[s].pc = "idle" /\ session[s].shown = "dashboard"

\* this step of session s is the load_data and st.rerun() of lines 368-372
LoadAndRerun(s) == session[s].pc = "uploader" /\ session'[s].pc = "start"

LoadsOnce(s) ==
    /\ session'[s].loads <= 1
    /\ LoadAndRerun(s) => (session[s].loads = 0 /\ RunSettled(s)')
    /\ (RunSettled(s) /\ StepOf(s)) =>
           /\ RunSettled(s)' \/ DashboardShown(s)'
           /\ session'[s].pc # "start"
           /\ session'[s].loads = session[s].loads
    /\ (session[s].pc \in {"render", "remove"} /\ session'[s].pc = "start")
           => session[s].button

C18_RerunsTerminate ==
    /\ [][\A s \in Sessions : LoadsOnce(s)]_vars
    /\ \A s \in Sessions : RunSettled(s) ~> DashboardShown(s)

\* the session shows the dashboard of a.csv, which it loaded once, while
\* the uploader holds the same content under another name
C18_Witness ==
    /\ DashboardShown("A")
    /\ session["A"].loads = 1
    /\ session["A"].uploaded_file = FileACopy
    /\ session["A"].data_source = Source("a.csv")
    /\ session["A"].current_file_hash = b64encode(FileA.contents)

(***************************************************************************)
(* C19: in a single session with no other writer of the cache, the step    *)
(* that carries out 'Clear Current Data' leaves no cache file, data and    *)
(* data_source None and current_file_hash as it was; from then on every    *)
(* script run that comes to the rendering shows the upload prompt, and     *)
(* data becomes non-None again only in the load_data of a file whose       *)
(* content is not the one the hash was taken of.                           *)
(***************************************************************************)
\* this step of session s carries out lines 132-136
ClearStep(s) ==
    /\ session[s].pc \in {"render", "remove"}
    /\ session'[s].pc = "start"

ClearLeavesHash(s) ==
    LET r == session[s]
    IN  /\ ClearStep(s) =>
               /\ ~files'[DefaultCache].exists
               /\ session'[s].data.isnone
               /\ session'[s].data_source.isnone
               /\ session'[s].has_hash = r.has_hash
               /\ session'[s].current_file_hash = r.current_file_hash
               /\ session'[s].cleared
        /\ r.cleared =>
               /\ r.data.isnone
               /\ ~files[DefaultCache].exists
        /\ (r.cleared /\ r.pc = "render") =>
               (session'[s].shown = "info" /\ session'[s].data.isnone)
        /\ (r.cleared /\ ~session'[s].data.isnone) =>
               /\ LoadAndRerun(s)
               /\ ~r.uploaded_file.isnone
               /\ r.has_hash =>
                      r.current_file_hash
                          # b64encode(r.uploaded_file.contents)
               /\ session'[s].data_source = Source(r.uploaded_file.name)

C19_ClearKeepsDataNone == [][ClearLeavesHash("A")]_vars

\* after the clear of the data of a.csv the session shows the upload
\* prompt while the uploader holds the same content under another name
C19_Witness ==
    /\ session["A"].cleared
    /\ session["A"].pc = "idle"
    /\ session["A"].shown = "info"
    /\ session["A"].data.isnone
    /\ session["A"].uploaded_file = FileACopy
    /\ session["A"].current_file_hash = b64encode(FileA.contents)
    /\ ~files[DefaultCache].exists

====
